---------------------------- MODULE Spec2Model ----------------------------
(***************************************************************************)
(* Model of streamlit_app.py: the property-tax (IPU) dashboard.            *)
(*                                                                         *)
(* One script run = one action.  A run renders the page header, calls the  *)
(* memoized load_data, and then either shows the FileNotFoundError message *)
(* and stops, or renders the sidebar widgets, filters the derived table    *)
(* and computes the aggregates of the five tabs.                           *)
(*                                                                         *)
(* Numbers.  avaluo2024 and area_const are held in HALF units (a value v   *)
(* stands for v/2), so that non-whole amounts exist; quantile edges are    *)
(* held in TENTHS of a unit (the quantile points are multiples of 1/5).    *)
(* All arithmetic is exact.  A missing numeric cell (NaN) is NaN, a        *)
(* missing text cell is NA.                                                *)
(* A run that an uncaught exception ends (pd.cut refusing the labels,      *)
(* int() of a NaN minimum) is a "crash": Streamlit shows the traceback in  *)
(* place of the rest of the page.                                          *)
(***************************************************************************)
EXTENDS Integers, Sequences, FiniteSets, TLC

VARIABLES
    file,        \* the spreadsheet on disk: NoFile or a table
    observed,    \* pandas' default for groupby(observed=...) in this build
    cache,       \* st.cache_data entries of load_data: path -> NoEntry or derived table
    reads,       \* path -> number of completed pd.read_excel calls
    session,     \* widget values Streamlit keeps between runs
    data,        \* `data` of the latest run
    df_filt,     \* `df_filt` of the latest run
    aggs,        \* the aggregates the tabs of the latest run computed
    rendered,    \* what the latest run put on the page, in order
    status       \* "init" | "ok" | "error" (st.error + st.stop) | "crash" (uncaught exception)

vars == <<file, observed, cache, reads, session, data, df_filt, aggs, rendered, status>>

-----------------------------------------------------------------------------
(* Bounds of the exploration *)

\* longest sheet (number of rows) explored
MaxRows == 2

\* pd.read_excel calls counted per path before the exploration stops reading
MaxReads == 2

-----------------------------------------------------------------------------
(* Cell values *)

\* a number no cell, and no difference of two cells, takes
NaN == 0 - 1000000
NA == "<NA>"
NoFile == [columns |-> {"<no file>"}, rows |-> <<>>]
DefaultPath == "MATRIZ PREDIAL_resumida.xlsx"
Paths == {DefaultPath}

Max(a, b) == IF a >= b THEN a ELSE b
Min(a, b) == IF a <= b THEN a ELSE b

\* A typical record; the explored sheets are built from rows that differ
\* from it in one or two cells.
BaseRow ==
    [NO |-> NA, clase |-> 1, ESTRATO |-> 1, DESTINACION |-> "HABITACIONAL",
     avaluo2024 |-> 200, area_const |-> 60, tarifa |-> 5, TARIFA_PROPUESTA |-> 5,
     VLR_IPU_2025 |-> 10, IPU_LEY_44 |-> 12]

RowUniverse ==
    <<BaseRow,
      [BaseRow EXCEPT !.NO = "NO"],
      [BaseRow EXCEPT !.clase = 2, !.tarifa = 6],
      [BaseRow EXCEPT !.ESTRATO = 0, !.tarifa = 4],
      [BaseRow EXCEPT !.DESTINACION = "COMERCIAL"],
      [BaseRow EXCEPT !.DESTINACION = NA, !.tarifa = NaN],
      [BaseRow EXCEPT !.avaluo2024 = 400],
      [BaseRow EXCEPT !.avaluo2024 = 203],
      [BaseRow EXCEPT !.avaluo2024 = NaN],
      [BaseRow EXCEPT !.area_const = 101]>>

\* The sequences of at most n rows of U, repetitions allowed, listed in the
\* order of U.  No step of the script depends on the order of the sheet's
\* rows (masks are row-wise, quantiles sort, counts and sums commute), so
\* one order stands for every permutation.
RECURSIVE SeqsUpTo(_, _)
SeqsUpTo(U, n) ==
    IF n = 0 \/ U = <<>> THEN {<<>>}
    ELSE SeqsUpTo(SubSeq(U, 1, Len(U) - 1), n)
         \cup {Append(s, U[Len(U)]) : s \in SeqsUpTo(U, n - 1)}

NoColumnNO(x) == x.NO = NA

\* The sheets "MATRIZ" explored: with a NO column, or without one (then no
\* row carries a NO cell).
Tables ==
    {[columns |-> {"NO"}, rows |-> r] : r \in SeqsUpTo(RowUniverse, MaxRows)}
    \cup {[columns |-> {}, rows |-> r] :
            r \in SeqsUpTo(SelectSeq(RowUniverse, NoColumnNO), MaxRows)}

-----------------------------------------------------------------------------
(* load_data *)

RECURSIVE SelectFrom(_, _, _)
SelectFrom(rows, mask, i) ==
    IF i > Len(rows) THEN <<>>
    ELSE IF mask[i] THEN <<rows[i]>> \o SelectFrom(rows, mask, i + 1)
         ELSE SelectFrom(rows, mask, i + 1)

\* boolean indexing df[mask]: the rows whose mask entry is True, in order
BoolIndex(rows, mask) == SelectFrom(rows, mask, 1)

\* boolean Series, one entry per row: col == v, col != v, col.isin(S)
EqMask(rows, col, v) == [i \in DOMAIN rows |-> rows[i][col] = v]
NeMask(rows, col, v) == [i \in DOMAIN rows |-> rows[i][col] # v]
IsIn(rows, col, S) == [i \in DOMAIN rows |-> rows[i][col] \in S]

\* pd.read_excel keeps the sheet order and gives each row its index label
read_excel(t) == [i \in 1..Len(t.rows) |-> [idx |-> i] @@ t.rows[i]]

\* Faulty variant: the comparison inverted: == "NO" for != "NO"
ExcludeNOInverted(t, rows) ==
    IF "NO" \in t.columns
    THEN BoolIndex(rows, EqMask(rows, "NO", "NO"))
    ELSE rows

\* lines 87-91: drop the rows marked "NO" when the column exists
ExcludeNO(t, rows) ==
    IF "NO" \in t.columns
    THEN BoolIndex(rows, NeMask(rows, "NO", "NO"))
    ELSE rows

\* line 94
zona(r) == IF r.clase = 1 THEN "URBANO" ELSE IF r.clase = 2 THEN "RURAL" ELSE "SIN CLASE"

IntStr == [n \in 0..9 |-> <<"0", "1", "2", "3", "4", "5", "6", "7", "8", "9">>[n + 1]]

\* lines 97-98
estrato_cat(r) ==
    LET e == IF r.ESTRATO = NaN THEN 0 ELSE r.ESTRATO
        s == IntStr[e]
    IN  IF s = "0" THEN "SIN ESTRATO" ELSE s

RECURSIVE Insert(_, _)
Insert(s, x) ==
    IF s = <<>> THEN <<x>>
    ELSE IF x <= Head(s) THEN <<x>> \o s
         ELSE <<Head(s)>> \o Insert(Tail(s), x)

RECURSIVE SortedVals(_, _)
\* the non-missing values of a numeric column, ascending
SortedVals(rows, col) ==
    IF rows = <<>> THEN <<>>
    ELSE LET rest == SortedVals(Tail(rows), col)
         IN  IF Head(rows)[col] = NaN THEN rest ELSE Insert(rest, Head(rows)[col])

\* Series.quantile(k/5), linear interpolation, in tenths of a unit
\* (v in half units: 5*v tenths)
Quantile(v, k) ==
    LET n == Len(v)
        h == (n - 1) * k
        i == h \div 5
        f == h % 5
    IN  IF i + 2 <= n THEN 5 * v[i + 1] + f * (v[i + 2] - v[i + 1])
        ELSE 5 * v[n]

RECURSIVE Unique(_)
\* np.unique of an ascending sequence
Unique(s) ==
    IF Len(s) <= 1 THEN s
    ELSE IF s[1] = s[2] THEN Unique(Tail(s))
         ELSE <<s[1]>> \o Unique(Tail(s))

\* lines 102-104
QuantileEdges(rows) ==
    LET v == SortedVals(rows, "avaluo2024")
    IN  Unique([k \in 1..6 |-> Quantile(v, k - 1)])

\* f"{x:,.0f}": an edge (tenths) rounded to a whole unit, ties to even
Fmt0(e) ==
    LET q == e \div 10
        r == e % 10
    IN  IF r < 5 THEN q
        ELSE IF r > 5 THEN q + 1
             ELSE IF q % 2 = 0 THEN q ELSE q + 1

\* lines 105-109: the label "$lo - $hi" is the pair of the formatted edges
Labels(qs) == [i \in 1..(Len(qs) - 1) |-> <<Fmt0(qs[i]), Fmt0(qs[i + 1])>>]

NoBand == <<>>
SIN_AVALUO == <<"SIN AVALUO">>

\* pd.cut(x, bins, right=True, include_lowest=True): the 1-based bin of x
\* (tenths), 0 when x is missing or outside the bins
CutBin(x, bins) ==
    IF x = NaN \/ Len(bins) < 2 THEN 0
    ELSE IF x = bins[1] THEN 1
         ELSE LET hit == {i \in 1..(Len(bins) - 1) : bins[i] < x /\ x <= bins[i + 1]}
              IN  IF hit = {} THEN 0 ELSE CHOOSE i \in hit : TRUE

Range(s) == {s[i] : i \in DOMAIN s}

\* pd.cut refuses labels that are not unique (ValueError)
CutRaises(labels) == Cardinality(Range(labels)) # Len(labels)

HasAvaluo(rows) == \E i \in DOMAIN rows : rows[i].avaluo2024 # NaN

\* lines 110-118
rango_avaluo_2024(r, rows) ==
    IF HasAvaluo(rows)
    THEN LET qs == QuantileEdges(rows)
             b == CutBin(IF r.avaluo2024 = NaN THEN NaN ELSE 5 * r.avaluo2024, qs)
         IN  IF b = 0 THEN NoBand ELSE Labels(qs)[b]
    ELSE SIN_AVALUO

\* lines 121-127, in half units; the last bin is open (np.inf)
area_bins == <<0, 70, 140, 240>>
area_labels == <<"0 - 35 m2", "35 - 70 m2", "70 - 120 m2", "Mas de 120 m2">>

\* lines 128-133
rango_area_const(r) ==
    LET a == r.area_const
    IN  IF a = NaN \/ a < area_bins[1] THEN NA
        ELSE IF a <= area_bins[2] THEN area_labels[1]
        ELSE IF a <= area_bins[3] THEN area_labels[2]
        ELSE IF a <= area_bins[4] THEN area_labels[3]
        ELSE area_labels[4]

\* line 136: NaN propagates through the subtraction
cambio_tarifa(r) ==
    IF r.TARIFA_PROPUESTA = NaN \/ r.tarifa = NaN THEN NaN
    ELSE r.TARIFA_PROPUESTA - r.tarifa

\* Faulty variant: <= for <: an unchanged tariff is reported as lowered
situacion_tarifa_le(r) ==
    LET c == cambio_tarifa(r)
    IN  IF c # NaN /\ c <= 0 THEN "Baja tarifa"
        ELSE IF c # NaN /\ c > 0 THEN "Sube tarifa"
        ELSE "Sin dato"

\* lines 137-145: np.select, first condition that holds; a comparison with
\* NaN is False
situacion_tarifa(r) ==
    LET c == cambio_tarifa(r)
    IN  IF c # NaN /\ c < 0 THEN "Baja tarifa"
        ELSE IF c # NaN /\ c = 0 THEN "Misma tarifa"
        ELSE IF c # NaN /\ c > 0 THEN "Sube tarifa"
        ELSE "Sin dato"

Derive(r, rows) ==
    r @@ [zona |-> zona(r),
          estrato_cat |-> estrato_cat(r),
          rango_avaluo_2024 |-> rango_avaluo_2024(r, rows),
          rango_area_const |-> rango_area_const(r),
          cambio_tarifa |-> cambio_tarifa(r),
          situacion_tarifa |-> situacion_tarifa(r)]

\* The body of load_data on a sheet that was read: the derived table, or
\* the ValueError of pd.cut.
load_data(t) ==
    LET rows == ExcludeNO(t, read_excel(t))
        cats == IF HasAvaluo(rows) THEN Labels(QuantileEdges(rows)) ELSE <<>>
    IN  IF HasAvaluo(rows) /\ CutRaises(cats)
        THEN [raised |-> TRUE, rows |-> <<>>, categorical |-> FALSE, categories |-> <<>>]
        ELSE [raised |-> FALSE,
              rows |-> [i \in 1..Len(rows) |-> Derive(rows[i], rows)],
              categorical |-> HasAvaluo(rows),
              categories |-> cats]

-----------------------------------------------------------------------------
(* st.cache_data *)

\* No entry for a path.  A call that raised is never stored, so this value
\* differs from every stored table.
NoEntry == [raised |-> TRUE, rows |-> <<>>, categorical |-> FALSE, categories |-> <<>>]

\* Faulty variant: the decorator dropped: every call runs the body
uncached_load_data(f, c, rd, path) ==
    IF f = NoFile
    THEN [outcome |-> "FileNotFoundError", value |-> NoEntry, cache |-> c, reads |-> rd]
    ELSE LET d == load_data(f)
             rd2 == [rd EXCEPT ![path] = @ + 1]
         IN  IF d.raised
             THEN [outcome |-> "ValueError", value |-> NoEntry, cache |-> c, reads |-> rd2]
             ELSE [outcome |-> "miss", value |-> d,
                   cache |-> [c EXCEPT ![path] = d], reads |-> rd2]

\* The memoized call load_data(path) (lines 79-85, 165-166): a stored entry
\* is returned without running the body; otherwise the body reads the file.
\* Result: what the call returned or raised, and the cache and read counts
\* afterwards.
cached_load_data(f, c, rd, path) ==
    IF c[path] # NoEntry
    THEN [outcome |-> "hit", value |-> c[path], cache |-> c, reads |-> rd]
    ELSE IF f = NoFile
         THEN [outcome |-> "FileNotFoundError", value |-> NoEntry, cache |-> c, reads |-> rd]
         ELSE LET d == load_data(f)
                  rd2 == [rd EXCEPT ![path] = @ + 1]
              IN  IF d.raised
                  THEN [outcome |-> "ValueError", value |-> NoEntry, cache |-> c, reads |-> rd2]
                  ELSE [outcome |-> "miss", value |-> d,
                        cache |-> [c EXCEPT ![path] = d], reads |-> rd2]

-----------------------------------------------------------------------------
(* Sidebar: options, defaults *)

ColValues(rows, col) == {rows[i][col] : i \in DOMAIN rows}

\* lines 179, 182, 185: sorted(col.dropna().unique()); the order of the
\* options does not reach the filter, so they are kept as a set
zonas(d) == ColValues(d.rows, "zona") \ {NA}
estratos(d) == ColValues(d.rows, "estrato_cat") \ {NA}
destinaciones(d) == ColValues(d.rows, "DESTINACION") \ {NA}

Numbers(rows, col) == ColValues(rows, col) \ {NaN}

\* Series.min() / Series.max(): missing cells are skipped; NaN when none is left
ColMin(rows, col) ==
    LET s == Numbers(rows, col)
    IN  IF s = {} THEN NaN ELSE CHOOSE x \in s : \A y \in s : x <= y
ColMax(rows, col) ==
    LET s == Numbers(rows, col)
    IN  IF s = {} THEN NaN ELSE CHOOSE x \in s : \A y \in s : x >= y

\* int(x) for x >= 0 in half units: the whole part, still in half units
IntPart(x) == (x \div 2) * 2

\* lines 189-197 and 200-207: the bounds of a range slider, which are also
\* its default value
SliderBounds(d, col) == <<IntPart(ColMin(d.rows, col)), IntPart(ColMax(d.rows, col))>>

\* int(float("nan")) raises ValueError
SliderRaises(d, col) == ColMin(d.rows, col) = NaN

-----------------------------------------------------------------------------
(* Filters, lines 209-221 *)

\* Series >= lo and Series <= hi: False on a missing cell
InRange(x, rango) == x # NaN /\ x >= rango[1] /\ x <= rango[2]

\* (df[col] >= rango[0]) & (df[col] <= rango[1])
Between(rows, col, rango) == [i \in DOMAIN rows |-> InRange(rows[i][col], rango)]

\* Faulty variant: the frame is filtered in place: data = data[...] for
\* df_filt = df_filt[...]
ApplyFiltersInPlace(env, w) ==
    LET r0 == env.data.rows
        r1 == BoolIndex(r0, IsIn(r0, "zona", w.zona_sel))
        r2 == BoolIndex(r1, IsIn(r1, "estrato_cat", w.estrato_sel))
        r3 == BoolIndex(r2, IsIn(r2, "DESTINACION", w.dest_sel))
        r4 == BoolIndex(r3, Between(r3, "avaluo2024", w.aval_rango))
        r5 == BoolIndex(r4, Between(r4, "area_const", w.area_rango))
    IN  [data |-> [env.data EXCEPT !.rows = r5], df_filt |-> r5]

\* Faulty variant: the masks joined with | for &
ApplyFiltersAny(env, w) ==
    LET r0 == env.data.rows
        any == [i \in DOMAIN r0 |->
                   \/ IsIn(r0, "zona", w.zona_sel)[i]
                   \/ IsIn(r0, "estrato_cat", w.estrato_sel)[i]
                   \/ IsIn(r0, "DESTINACION", w.dest_sel)[i]
                   \/ Between(r0, "avaluo2024", w.aval_rango)[i]
                   \/ Between(r0, "area_const", w.area_rango)[i]]
    IN  [data |-> env.data, df_filt |-> BoolIndex(r0, any)]

\* Faulty variant: a reversed range put in order before it is applied
ApplyFiltersSwapped(env, w) ==
    LET aval == <<Min(w.aval_rango[1], w.aval_rango[2]), Max(w.aval_rango[1], w.aval_rango[2])>>
        area == <<Min(w.area_rango[1], w.area_rango[2]), Max(w.area_rango[1], w.area_rango[2])>>
        r0 == env.data.rows
        r1 == BoolIndex(r0, IsIn(r0, "zona", w.zona_sel))
        r2 == BoolIndex(r1, IsIn(r1, "estrato_cat", w.estrato_sel))
        r3 == BoolIndex(r2, IsIn(r2, "DESTINACION", w.dest_sel))
        r4 == BoolIndex(r3, Between(r3, "avaluo2024", aval))
        r5 == BoolIndex(r4, Between(r4, "area_const", area))
    IN  [data |-> env.data, df_filt |-> r5]

\* The five boolean-index steps, each on the result of the one before.
\* env holds the script's two frames; only df_filt is reassigned.
ApplyFilters(env, w) ==
    LET r0 == env.data.rows                      \* data.copy()
        r1 == BoolIndex(r0, IsIn(r0, "zona", w.zona_sel))
        r2 == BoolIndex(r1, IsIn(r1, "estrato_cat", w.estrato_sel))
        r3 == BoolIndex(r2, IsIn(r2, "DESTINACION", w.dest_sel))
        r4 == BoolIndex(r3, Between(r3, "avaluo2024", w.aval_rango))
        r5 == BoolIndex(r4, Between(r4, "area_const", w.area_rango))
    IN  [data |-> env.data, df_filt |-> r5]

-----------------------------------------------------------------------------
(* Aggregates of the tabs *)

\* number of rows whose key is k
CountEq(rows, col, k) == Cardinality({i \in DOMAIN rows : rows[i][col] = k})

\* groupby(col).size() on a text column: one row per value that occurs;
\* rows with a missing key are left out
GroupSize(rows, col) ==
    [k \in ColValues(rows, col) \ {NA} |-> CountEq(rows, col, k)]

\* Faulty variant: the rows with a missing key form a group of their own
GroupSizeKeepMissing(rows, col, categories, missing, obs) ==
    LET keys == IF obs THEN ColValues(rows, col) ELSE Range(categories) \cup ColValues(rows, col)
    IN  [k \in keys |-> CountEq(rows, col, k)]

\* groupby(col).size() on a categorical column (the result of pd.cut):
\* with observed=False every category gets a row, also the ones no row of
\* the frame falls in; with observed=True only the categories that occur.
\* The trailing .dropna(subset=[col]) removes a row whose key is missing.
GroupSizeCategorical(rows, col, categories, missing, obs) ==
    LET keys == IF obs THEN ColValues(rows, col) \ {missing}
                ELSE Range(categories)
    IN  [k \in keys \ {missing} |-> CountEq(rows, col, k)]

RECURSIVE SumCol(_, _)
\* Series.sum(): missing cells are skipped
SumCol(rows, col) ==
    IF rows = <<>> THEN 0
    ELSE (IF Head(rows)[col] = NaN THEN 0 ELSE Head(rows)[col]) + SumCol(Tail(rows), col)

\* Series.mean(): <<sum, count>> of the non-missing cells (NaN when count = 0)
MeanCol(rows, col) ==
    <<SumCol(rows, col), Cardinality({i \in DOMAIN rows : rows[i][col] # NaN})>>

\* lines 264-269: sums per zona
SumsPerZona(rows) ==
    [z \in ColValues(rows, "zona") \ {NA} |->
        LET g == BoolIndex(rows, EqMask(rows, "zona", z))
        IN  [VLR_IPU_2025 |-> SumCol(g, "VLR_IPU_2025"),
             IPU_LEY_44 |-> SumCol(g, "IPU_LEY_44")]]

\* lines 454-462: groupby(["zona", "DESTINACION"]); a row whose key has a
\* missing part belongs to no group
ResumenTarifas(rows) ==
    LET keys == {<<rows[i].zona, rows[i].DESTINACION>> : i \in DOMAIN rows}
        full == {k \in keys : k[1] # NA /\ k[2] # NA}
    IN  [k \in full |->
            LET g == BoolIndex(rows, [i \in DOMAIN rows |->
                                  rows[i].zona = k[1] /\ rows[i].DESTINACION = k[2]])
            IN  [predios |-> Len(g),
                 tarifa_prom_actual |-> MeanCol(g, "tarifa"),
                 tarifa_prom_propuesta |-> MeanCol(g, "TARIFA_PROPUESTA")]]

\* What the five tabs compute from df_filt (lines 244-248, 264-269,
\* 296-301, 332-337, 414-419, 454-462)
Aggregates(d, rows, obs) ==
    [total_predios |-> Len(rows),
     rec_actual |-> SumCol(rows, "VLR_IPU_2025"),
     rec_propuesta |-> SumCol(rows, "IPU_LEY_44"),
     agg |-> SumsPerZona(rows),
     dist_aval |-> IF d.categorical
                   THEN GroupSizeCategorical(rows, "rango_avaluo_2024",
                                             d.categories, NoBand, obs)
                   ELSE GroupSizeCategorical(rows, "rango_avaluo_2024",
                                             <<>>, NoBand, TRUE),
     dist_area |-> GroupSizeCategorical(rows, "rango_area_const", area_labels, NA, obs),
     dist_tarifa |-> GroupSize(rows, "situacion_tarifa"),
     resumen_tarifas |-> ResumenTarifas(rows)]

NoAggs ==
    [total_predios |-> 0, rec_actual |-> 0, rec_propuesta |-> 0, agg |-> <<>>,
     dist_aval |-> <<>>, dist_area |-> <<>>, dist_tarifa |-> <<>>,
     resumen_tarifas |-> <<>>]

-----------------------------------------------------------------------------
(* One run of the script *)

NoSession ==
    [registered |-> {}, zona_sel |-> {}, estrato_sel |-> {}, dest_sel |-> {},
     aval_rango |-> <<0, 0>>, area_rango |-> <<0, 0>>]

\* lines 21-74: style, logos, title, description
Header == <<"header">>

\* A widget returns the value the session holds for it, or its default the
\* first time it is rendered.
WidgetValue(s, name, default) == IF name \in s.registered THEN s[name] ELSE default

Stopped(load, pre, how) ==
    [cache |-> load.cache, reads |-> load.reads, session |-> NoSession,
     data |-> NoEntry, df_filt |-> <<>>, aggs |-> NoAggs,
     rendered |-> pre, status |-> how]

\* Faulty variant: st.stop() left out: the script goes on below the message
OnFileNotFoundContinue(load, pre) ==
    Stopped(load, pre \o <<"error", "sidebar", "exception">>, "error")

\* lines 167-172: st.error, then st.stop(): nothing below runs
OnFileNotFound(load, pre) == Stopped(load, pre \o <<"error">>, "error")

\* lines 177-470 on a loaded table d, with the session s
Dashboard(load, d, s, obs) ==
    LET zona_sel == WidgetValue(s, "zona_sel", zonas(d))
        estrato_sel == WidgetValue(s, "estrato_sel", estratos(d))
        dest_sel == WidgetValue(s, "dest_sel", destinaciones(d))
        side == Header \o <<"sidebar", "zona_sel", "estrato_sel", "dest_sel">>
        cats == {"zona_sel", "estrato_sel", "dest_sel"}
        w3 == [NoSession EXCEPT !.zona_sel = zona_sel, !.estrato_sel = estrato_sel,
                                !.dest_sel = dest_sel]
    IN  IF SliderRaises(d, "avaluo2024")
        THEN [Stopped(load, side \o <<"exception">>, "crash") EXCEPT
                 !.data = d, !.session = [w3 EXCEPT !.registered = cats]]
        ELSE
        LET aval_rango == WidgetValue(s, "aval_rango", SliderBounds(d, "avaluo2024"))
            w4 == [w3 EXCEPT !.aval_rango = aval_rango]
        IN  IF SliderRaises(d, "area_const")
            THEN [Stopped(load, side \o <<"aval_rango", "exception">>, "crash") EXCEPT
                     !.data = d,
                     !.session = [w4 EXCEPT !.registered = cats \cup {"aval_rango"}]]
            ELSE
            LET area_rango == WidgetValue(s, "area_rango", SliderBounds(d, "area_const"))
                w == [w4 EXCEPT !.area_rango = area_rango,
                                !.registered = cats \cup {"aval_rango", "area_rango"}]
                env == ApplyFilters([data |-> d, df_filt |-> <<>>], w)
            IN  [cache |-> load.cache, reads |-> load.reads, session |-> w,
                 data |-> env.data, df_filt |-> env.df_filt,
                 aggs |-> Aggregates(env.data, env.df_filt, obs),
                 rendered |-> side \o <<"aval_rango", "area_rango", "count", "tabs">>,
                 status |-> "ok"]

\* The whole script, top to bottom
Script(f, c, rd, s, obs) ==
    LET load == cached_load_data(f, c, rd, DefaultPath)
    IN  CASE load.outcome = "FileNotFoundError" -> OnFileNotFound(load, Header)
          [] load.outcome = "ValueError" -> Stopped(load, Header \o <<"exception">>, "crash")
          [] OTHER -> Dashboard(load, load.value, s, obs)

-----------------------------------------------------------------------------
(* The dashboard as a state machine: one action per script run *)

Init ==
    /\ file \in Tables \cup {NoFile}
    /\ observed \in BOOLEAN
    /\ cache = [p \in Paths |-> NoEntry]
    /\ reads = [p \in Paths |-> 0]
    /\ session = NoSession
    /\ data = NoEntry
    /\ df_filt = <<>>
    /\ aggs = NoAggs
    /\ rendered = <<>>
    /\ status = "init"

\* Streamlit runs the script top to bottom with the widget values s
Run(s) ==
    /\ reads[DefaultPath] < MaxReads
    /\ \E r \in {Script(file, cache, reads, s, observed)} :
          /\ cache' = r.cache
          /\ reads' = r.reads
          /\ session' = r.session
          /\ data' = r.data
          /\ df_filt' = r.df_filt
          /\ aggs' = r.aggs
          /\ rendered' = r.rendered
          /\ status' = r.status
    /\ UNCHANGED <<file, observed>>

OnPage(name) == name \in Range(rendered)

\* the browser opens the app: first run, no widget has a value yet
Open == status = "init" /\ Run(NoSession)

\* "Rerun" with the widgets as they are
Rerun == status # "init" /\ Run(session)

\* a multiselect accepts any subset of its options
SelectZona ==
    /\ OnPage("zona_sel")
    /\ \E S \in SUBSET zonas(data) :
          S # session.zona_sel /\ Run([session EXCEPT !.zona_sel = S])

SelectEstrato ==
    /\ OnPage("estrato_sel")
    /\ \E S \in SUBSET estratos(data) :
          S # session.estrato_sel /\ Run([session EXCEPT !.estrato_sel = S])

SelectDestinacion ==
    /\ OnPage("dest_sel")
    /\ \E S \in SUBSET destinaciones(data) :
          S # session.dest_sel /\ Run([session EXCEPT !.dest_sel = S])

\* Handle positions tried on a range slider: the whole part of each value
\* of the column (and, on the float slider, the value itself), between the
\* slider's bounds.
SliderStops(d, col, whole) ==
    LET b == SliderBounds(d, col)
        v == Numbers(d.rows, col)
        c == {IntPart(x) : x \in v} \cup (IF whole THEN {} ELSE v)
    IN  {x \in c : b[1] <= x /\ x <= b[2]}

\* a range slider returns (lo, hi) with lo <= hi, both within its bounds
SlideAvaluo ==
    /\ OnPage("aval_rango")
    /\ \E lo, hi \in SliderStops(data, "avaluo2024", TRUE) :
          /\ lo <= hi
          /\ <<lo, hi>> # session.aval_rango
          /\ Run([session EXCEPT !.aval_rango = <<lo, hi>>])

SlideArea ==
    /\ OnPage("area_rango")
    /\ \E lo, hi \in SliderStops(data, "area_const", FALSE) :
          /\ lo <= hi
          /\ <<lo, hi>> # session.area_rango
          /\ Run([session EXCEPT !.area_rango = <<lo, hi>>])

\* the environment: the spreadsheet is removed from the directory ...
DeleteFile ==
    /\ file # NoFile
    /\ status # "init"
    /\ file' = NoFile
    /\ UNCHANGED <<observed, cache, reads, session, data, df_filt, aggs, rendered, status>>

\* ... or, as the error message asks, put there
UploadFile ==
    /\ file = NoFile
    /\ status = "error"
    /\ \E t \in Tables : file' = t
    /\ UNCHANGED <<observed, cache, reads, session, data, df_filt, aggs, rendered, status>>

Next ==
    \/ Open
    \/ Rerun
    \/ SelectZona
    \/ SelectEstrato
    \/ SelectDestinacion
    \/ SlideAvaluo
    \/ SlideArea
    \/ DeleteFile
    \/ UploadFile

Spec == Init /\ [][Next]_vars

-----------------------------------------------------------------------------
(* The filter as a function: filter(table, criteria) on criteria of any    *)
(* shape, also the ones no slider returns (min > max).                     *)

AllZonas == {"URBANO", "RURAL", "SIN CLASE"}
AllEstratos == {"SIN ESTRATO", "1", "2"}
AllDestinaciones == {"HABITACIONAL", "COMERCIAL"}
AvaluoStops == {200, 400}
AreaStops == {60, 102}

Criteria ==
    {[registered |-> {"zona_sel", "estrato_sel", "dest_sel", "aval_rango", "area_rango"},
      zona_sel |-> AllZonas, estrato_sel |-> AllEstratos, dest_sel |-> AllDestinaciones,
      aval_rango |-> <<a1, a2>>, area_rango |-> <<b1, b2>>] :
        a1 \in AvaluoStops, a2 \in AvaluoStops, b1 \in AreaStops, b2 \in AreaStops}

FilterInit ==
    /\ file \in {t \in Tables : ~load_data(t).raised}
    /\ observed = FALSE
    /\ cache = [p \in Paths |-> load_data(file)]
    /\ reads = [p \in Paths |-> 1]
    /\ session \in Criteria
    /\ data = load_data(file)
    /\ df_filt = <<>>
    /\ aggs = NoAggs
    /\ rendered = <<>>
    /\ status = "init"

\* lines 209-221 and the aggregates, on the criteria as given
FilterApply ==
    /\ status = "init"
    /\ \E env \in {ApplyFilters([data |-> data, df_filt |-> <<>>], session)} :
          /\ data' = env.data
          /\ df_filt' = env.df_filt
          /\ aggs' = Aggregates(env.data, env.df_filt, observed)
    /\ status' = "ok"
    /\ UNCHANGED <<file, observed, cache, reads, session, rendered>>

FilterNext == FilterApply

FilterSpec == FilterInit /\ [][FilterNext]_vars

-----------------------------------------------------------------------------
(* Properties *)

P == DefaultPath
Loaded == status \in {"ok", "crash"} /\ data # NoEntry
Rows(t) == {t[i] : i \in DOMAIN t}
Marked(r) == r.NO = "NO"

\* C1 -- Exclusion: no row whose NO cell is "NO" is in the table load_data
\* returned (the one in use and the cached one), in df_filt, or counted by
\* an aggregate of df_filt; a sheet without a NO column loses no row.
C1_Exclusion ==
    /\ \A r \in Rows(data.rows) \cup Rows(df_filt) \cup Rows(cache[P].rows) : ~Marked(r)
    /\ status = "ok" =>
          aggs = Aggregates(data, BoolIndex(df_filt, [i \in DOMAIN df_filt |->
                                                      ~Marked(df_filt[i])]), observed)
    /\ (Loaded /\ file # NoFile) =>
          /\ Len(data.rows) = Cardinality({i \in DOMAIN file.rows : ~Marked(file.rows[i])})
          /\ "NO" \notin file.columns => Len(data.rows) = Len(file.rows)

\* a sheet with a marked row was loaded and filtered, and rows are left
C1_Witness ==
    /\ status = "ok"
    /\ file # NoFile
    /\ \E i \in DOMAIN file.rows : Marked(file.rows[i])
    /\ df_filt # <<>>

Passes(r, w) ==
    /\ r.zona \in w.zona_sel
    /\ r.estrato_cat \in w.estrato_sel
    /\ r.DESTINACION \in w.dest_sel
    /\ r.avaluo2024 # NaN /\ w.aval_rango[1] <= r.avaluo2024 /\ r.avaluo2024 <= w.aval_rango[2]
    /\ r.area_const # NaN /\ w.area_rango[1] <= r.area_const /\ r.area_const <= w.area_rango[2]

\* C2 -- df_filt holds exactly the rows of data that pass all five
\* predicates at once, in the order of data; with an empty zone, stratum or
\* destination selection it is empty.
C2_FilterIsConjunction ==
    status = "ok" =>
        /\ Rows(df_filt) = {r \in Rows(data.rows) : Passes(r, session)}
        /\ \A j, k \in DOMAIN df_filt : j < k => df_filt[j].idx < df_filt[k].idx
        /\ ({} \in {session.zona_sel, session.estrato_sel, session.dest_sel})
              => df_filt = <<>>

\* some rows pass and some do not
C2_Witness ==
    /\ status = "ok"
    /\ df_filt # <<>>
    /\ Len(df_filt) < Len(data.rows)

Inverted(rango) == rango[1] > rango[2]

MissingFileRun == file = NoFile /\ file' = NoFile

\* C4 as stated -- a run with the source file missing ends in the error
\* state and renders nothing of the dashboard, the header included.
C4_NothingButError ==
    [][MissingFileRun => (status' = "error" /\ rendered' = <<"error">>)]_vars

\* C4 as amended -- a run with the source file missing and nothing cached
\* renders the page header, then the error message, and stops: no sidebar
\* widget, tab or chart follows.
C4_HeaderThenError ==
    [][(MissingFileRun /\ cache[P] = NoEntry)
          => (/\ status' = "error"
              /\ rendered' = <<"header", "error">>
              /\ data' = NoEntry /\ df_filt' = <<>> /\ aggs' = NoAggs)]_vars

C4_Witness == status = "error" /\ file = NoFile /\ rendered = <<"header", "error">>

AllSameAvaluo(rows) ==
    /\ rows # <<>>
    /\ \A i \in DOMAIN rows : rows[i].avaluo2024 # NaN /\ rows[i].avaluo2024 = rows[1].avaluo2024

\* C5 -- when every row has the same defined avaluo2024, load_data returns
\* a table whose rango_avaluo_2024 has exactly one band, and every row is
\* in it.
C5_SingleBand ==
    (status # "init" /\ file # NoFile /\ cache[P] # NoEntry /\ AllSameAvaluo(cache[P].rows))
        => /\ Len(cache[P].categories) = 1
           /\ \A r \in Rows(cache[P].rows) : r.rango_avaluo_2024 = cache[P].categories[1]

Gt(a, b) == a # NaN /\ b # NaN /\ a > b
Eq(a, b) == a # NaN /\ b # NaN /\ a = b

TariffRule(r) ==
    /\ r.situacion_tarifa = "Sube tarifa" <=> Gt(r.TARIFA_PROPUESTA, r.tarifa)
    /\ r.situacion_tarifa = "Baja tarifa" <=> Gt(r.tarifa, r.TARIFA_PROPUESTA)
    /\ r.situacion_tarifa = "Misma tarifa" <=> Eq(r.tarifa, r.TARIFA_PROPUESTA)

\* C6 as stated -- situacion_tarifa follows the comparison of the two
\* tariffs, and "Sin dato" is assigned to no row.
C6_NeverSinDato ==
    \A r \in Rows(data.rows) : TariffRule(r) /\ r.situacion_tarifa # "Sin dato"

\* C6 as amended -- situacion_tarifa follows the comparison of the two
\* tariffs, and "Sin dato" is assigned exactly to the rows where one of the
\* two tariffs is missing.
C6_TariffSituation ==
    \A r \in Rows(data.rows) :
        /\ TariffRule(r)
        /\ r.situacion_tarifa = "Sin dato" <=> (r.tarifa = NaN \/ r.TARIFA_PROPUESTA = NaN)

C6_Witness ==
    /\ \E r \in Rows(data.rows) : r.situacion_tarifa = "Sin dato"
    /\ \E r \in Rows(data.rows) : r.situacion_tarifa \in {"Sube tarifa", "Baja tarifa"}

Occurring(col, missing) == ColValues(df_filt, col) \ {missing}
Size(col, k) == Cardinality({i \in DOMAIN df_filt : df_filt[i][col] = k})

ExactGroups ==
    /\ DOMAIN aggs.dist_tarifa = Occurring("situacion_tarifa", NA)
    /\ DOMAIN aggs.agg = Occurring("zona", NA)
    /\ DOMAIN aggs.resumen_tarifas =
          {<<r.zona, r.DESTINACION>> : r \in {x \in Rows(df_filt) : x.DESTINACION # NA}}

\* C7 as stated -- every aggregate has a result row for exactly the groups
\* that occur in df_filt.
C7_OnlyOccurringGroups ==
    status = "ok" =>
        /\ ExactGroups
        /\ DOMAIN aggs.dist_aval = Occurring("rango_avaluo_2024", NoBand)
        /\ DOMAIN aggs.dist_area = Occurring("rango_area_const", NA)

BandRows(dist, col, missing, categories) ==
    /\ Occurring(col, missing) \subseteq DOMAIN dist
    /\ \A k \in DOMAIN dist :
          /\ dist[k] = Size(col, k)
          /\ k \in Occurring(col, missing) \/ (~observed /\ k \in Range(categories))

\* C7 as amended -- the counts per situacion_tarifa, the sums per zona and
\* the zona x DESTINACION summary have a row for exactly the groups that
\* occur in df_filt.  The counts per rango_avaluo_2024 and per
\* rango_area_const have a row, with its count, for every band that occurs,
\* and no other row except, where pandas groups categorical keys with
\* observed=False, a row with count 0 for each band of the column that does
\* not occur.
C7_GroupRows ==
    status = "ok" =>
        /\ ExactGroups
        /\ \A k \in DOMAIN aggs.dist_tarifa : aggs.dist_tarifa[k] = Size("situacion_tarifa", k)
        /\ \A k \in DOMAIN aggs.resumen_tarifas :
              aggs.resumen_tarifas[k].predios =
                 Cardinality({i \in DOMAIN df_filt :
                                 <<df_filt[i].zona, df_filt[i].DESTINACION>> = k})
        /\ BandRows(aggs.dist_aval, "rango_avaluo_2024", NoBand, data.categories)
        /\ BandRows(aggs.dist_area, "rango_area_const", NA, area_labels)

\* a band with no row in a non-empty subset has a result row
C7_Witness ==
    /\ status = "ok"
    /\ df_filt # <<>>
    /\ \E k \in DOMAIN aggs.dist_aval : aggs.dist_aval[k] = 0
    /\ \E k \in DOMAIN aggs.dist_aval : aggs.dist_aval[k] > 0

FilterChange == status = "ok" /\ status' = "ok" /\ session' # session

\* C8 -- a filter change leaves the derived table as it was: `data` after
\* the run is the table load_data first returned, and so is the cached one.
C8_DerivedTableUntouched ==
    [][FilterChange => (data' = data /\ cache' = cache /\ data' = cache[P])]_vars

\* a filter change took rows out
C8_Witness ==
    /\ status = "ok"
    /\ session.zona_sel # zonas(data) \/ session.aval_rango # SliderBounds(data, "avaluo2024")
    /\ Len(df_filt) < Len(data.rows)
    /\ cache[P] = data

AtDefaults ==
    /\ session.zona_sel = zonas(data)
    /\ session.estrato_sel = estratos(data)
    /\ session.dest_sel = destinaciones(data)
    /\ session.aval_rango = SliderBounds(data, "avaluo2024")
    /\ session.area_rango = SliderBounds(data, "area_const")

\* C10 -- with every widget at its startup default, df_filt holds every row
\* of the derived table.
C10_DefaultsKeepAll ==
    (status = "ok" /\ AtDefaults) => df_filt = data.rows

=============================================================================
